---- MODULE Spec2Model ----
(***************************************************************************)
(* A model of atctest (mui87/atctest): package app (app.go) and package    *)
(* atcoder (checker.go, client.go).                                        *)
(*                                                                         *)
(* Text is modelled as a sequence of one-character strings, so that the    *)
(* string functions the code calls (ToUpper, Trim, LastIndex, Replace,     *)
(* Contains, the JSON encoding) are computed character by character.       *)
(* The titles "入力例" / "出力例" of the sample blocks are written "IN" /  *)
(* "OUT": the module is ASCII.                                             *)
(*                                                                         *)
(* A Go slice of samples is a record [isNil, elems]; a Go error is a       *)
(* record [kind, detail] and NilErr is the nil error.                      *)
(***************************************************************************)
EXTENDS Integers, Sequences, FiniteSets, TLC

VARIABLES
    pc,          \* control position of the operation in progress
    caller,      \* who called the operation in progress: "main" or "Run"
    trace,       \* the calls and external effects so far, in order
    args,        \* New: the flags of the command line
    homeDir,     \* New: what homedir.Dir() returns
    newRet,      \* New: what it returned
    site,        \* the pages the site serves: contest, login, task list, problem
    cookies,     \* the collector's cookies for baseURL: a set of cookie values
    loginArgs,   \* LogIn: username and password
    csrfToken,   \* LogIn: the variable csrfToken its handler shares
    loginErr,    \* LogIn: the variable loginErr its handler shares
    elem,        \* LogIn: the csrf_token fields of the page handled so far
    loginRet,    \* LogIn: what it returned
    locArgs,     \* GetProblemURL: contest and problem
    locRet,      \* GetProblemURL: what it returned
    app,         \* Run: the App
    runURL,      \* Run: the local problemURL
    runErr,      \* Run: the local err
    runRet,      \* Run: what it returned
    client,      \* Client: the fields useCache and cacheDirPath
    disk,        \* the cache directory: its state and its files
    stored,      \* history: per file, the list the last successful store wrote
    io,          \* the lookups, fetches and stores of the last Client call
    cacheRet,    \* what the last call of a cache operation returned
    elements,    \* constructSamples: the element map it is given
    pairRet,     \* constructSamples: what it returned
    command,     \* Check: the command
    samples,     \* Check: the sample list
    i,           \* Check: the loop index (samples checked so far)
    successAll,  \* Check: the accumulated flag
    outStream,   \* Checker.outStream: the report written so far
    runOuts,     \* Check: what commander.Run returned, call by call
    checkRet     \* Check: what it returned

vars == <<pc, caller, trace, args, homeDir, newRet,
          site, cookies, loginArgs, csrfToken, loginErr, elem, loginRet,
          locArgs, locRet, app, runURL, runErr, runRet,
          client, disk, stored, io, cacheRet, elements, pairRet,
          command, samples, i, successAll, outStream, runOuts, checkRet>>

newVars == <<args, homeDir, newRet>>
webVars == <<site, cookies>>
loginVars == <<loginArgs, csrfToken, loginErr, elem, loginRet>>
locVars == <<locArgs, locRet>>
runVars == <<app, runURL, runErr, runRet>>
cacheVars == <<client, disk, stored, io, cacheRet>>
pairVars == <<elements, pairRet>>
checkVars == <<command, samples, i, successAll, outStream, runOuts, checkRet>>

----------------------------------------------------------------------------
(* Bounds of the model *)

\* largest numeric suffix of a sample title on a page
MaxIndex == 2
\* longest sample list handed to Check
MaxSamples == 2
\* longest value of the -url flag, in characters
MaxURLLen == 4
\* most anchors in the table of a task list page
MaxAnchors == 2
\* most csrf_token fields on a login page
MaxTokens == 2

----------------------------------------------------------------------------
(* Values *)

NilErr == [kind |-> "nil", detail |-> ""]

Err(kind, detail) == [kind |-> kind, detail |-> detail]

Sample(input, output) == [Input |-> input, Output |-> output]

NilSlice == [isNil |-> TRUE, elems |-> <<>>]

Slice(elems) == [isNil |-> FALSE, elems |-> elems]

\* the sequences over S of length at most n
SeqUpTo(S, n) == UNION {[1..k -> S] : k \in 0..n}

\* an entry of the trace: the operation, an index and a text
Ev(op, n, text) == [op |-> op, n |-> n, text |-> text]

\* the -command values: one given, or none
Commands == {"python c.py", ""}

\* sample texts: two distinct one-line texts
Texts == {<<"9", "\n">>, <<"2", "5", "\n">>}

----------------------------------------------------------------------------
(* The values of the variables an operation does not use *)

NoApp == [isNil |-> TRUE]

NotCalled == [app |-> NoApp, err |-> Err("not called", ""), panic |-> FALSE]

IdleNew ==
    /\ args = [bad |-> FALSE] /\ homeDir = [dir |-> <<>>, err |-> NilErr]
    /\ newRet = NotCalled

NoRet == [samples |-> NilSlice, err |-> Err("not called", "")]

IdlePair == elements = <<>> /\ pairRet = NoRet

IdleCheck ==
    /\ command = "" /\ samples = NilSlice /\ i = 0 /\ successAll = TRUE
    /\ outStream = <<>> /\ runOuts = <<>> /\ checkRet = TRUE

NoDisk == [dir |-> "absent", files |-> <<>>]

NoPage == [ok |-> FALSE, pres |-> <<>>]

NoCacheRet ==
    [op |-> "none", url |-> <<>>, samples |-> NilSlice, ok |-> FALSE, err |-> NilErr,
     page |-> NoPage, before |-> NoDisk, after |-> NoDisk]

NoSite ==
    [contestPage |-> [ok |-> FALSE, button |-> FALSE],
     loginPage |-> [ok |-> FALSE, tokens |-> <<>>],
     tasksPage |-> [ok |-> FALSE, anchors |-> <<>>],
     problemPage |-> NoPage]

IdleWeb == site = NoSite /\ cookies = {}

NoLogInRet == Err("not called", "")

IdleLogIn ==
    /\ loginArgs = [username |-> <<>>, password |-> <<>>]
    /\ csrfToken = <<>> /\ loginErr = NilErr /\ elem = 0 /\ loginRet = NoLogInRet

NoLocRet == [url |-> <<>>, err |-> Err("not called", "")]

IdleLocate == locArgs = [contest |-> <<>>, problem |-> <<>>] /\ locRet = NoLocRet

IdleRun ==
    /\ app = NoApp /\ runURL = <<>> /\ runErr = NilErr
    /\ runRet = Err("not called", "")

IdleCache ==
    /\ client = [useCache |-> TRUE, cacheDirPath |-> <<>>]
    /\ disk = NoDisk /\ stored = <<>> /\ io = <<>> /\ cacheRet = NoCacheRet

----------------------------------------------------------------------------
(* package strings *)

\* unicode.ToUpper / unicode.ToLower on the letters of the model's texts
upperRune(c) ==
    CASE c = "a" -> "A" [] c = "b" -> "B" [] c = "c" -> "C" [] OTHER -> c

lowerRune(c) ==
    CASE c = "A" -> "a" [] c = "B" -> "b" [] c = "C" -> "c" [] OTHER -> c

ToUpper(s) == [k \in DOMAIN s |-> upperRune(s[k])]

ToLower(s) == [k \in DOMAIN s |-> lowerRune(s[k])]

\* strings.TrimRight(s, cutset)
RECURSIVE TrimRight(_, _)
TrimRight(s, cutset) ==
    IF s # <<>> /\ s[Len(s)] \in cutset
    THEN TrimRight(SubSeq(s, 1, Len(s) - 1), cutset) ELSE s

\* strings.TrimLeft(s, cutset)
RECURSIVE TrimLeft(_, _)
TrimLeft(s, cutset) ==
    IF s # <<>> /\ Head(s) \in cutset THEN TrimLeft(Tail(s), cutset) ELSE s

\* strings.Trim(s, cutset)
Trim(s, cutset) == TrimRight(TrimLeft(s, cutset), cutset)

\* strings.LastIndex(s, c) for a one-character c: the 0-based index of its
\* last occurrence, -1 without one
LastIndex(s, c) ==
    LET at == {k \in DOMAIN s : s[k] = c}
    IN  IF at = {} THEN -1 ELSE (CHOOSE k \in at : \A j \in at : j <= k) - 1

\* strings.Replace(s, old, new, -1) for one-character old and new
ReplaceAll(s, old, new) == [k \in DOMAIN s |-> IF s[k] = old THEN new ELSE s[k]]

\* strings.Contains(s, sub)
Contains(s, sub) ==
    \E k \in 0..(Len(s) - Len(sub)) : SubSeq(s, k + 1, k + Len(sub)) = sub

----------------------------------------------------------------------------
(* app.go: New *)

\* const baseURL, kept in one piece
baseURL == <<"https://atcoder.jp">>

\* "contestURL = contestURL[:i]" twice, after TrimRight(problemURL, "/");
\* a slice bound of -1 panics
contestURLOf(problemURL) ==
    LET t == TrimRight(problemURL, {"/"})
        j == LastIndex(t, "/")
    IN  IF j < 0 THEN [panic |-> TRUE, url |-> <<>>]
        ELSE LET u == SubSeq(t, 1, j)
                 k == LastIndex(u, "/")
             IN  IF k < 0 THEN [panic |-> TRUE, url |-> <<>>]
                 ELSE [panic |-> FALSE, url |-> SubSeq(u, 1, k)]

\* New(args, outStream, errStream), with home what homedir.Dir() returns
New(a, home) ==
    IF a.bad
    THEN [app |-> NoApp, err |-> Err("failed to parse flags", ""), panic |-> FALSE]
    ELSE IF a.url = <<>> /\ a.contest = <<>>
    THEN [app |-> NoApp, err |-> Err("specify the contest", ""), panic |-> FALSE]
    ELSE IF a.url = <<>> /\ a.problem = <<>>
    THEN [app |-> NoApp, err |-> Err("specify the problem", ""), panic |-> FALSE]
    ELSE IF a.url = <<>> /\ a.command = ""
    THEN [app |-> NoApp, err |-> Err("specify the command", ""), panic |-> FALSE]
    ELSE
      LET problemURL == Trim(a.url, {"'", "\""})
          cut == IF problemURL = <<>>
                 THEN [panic |-> FALSE,
                       url |-> baseURL \o <<"/contests/">> \o ToLower(a.contest)]
                 ELSE contestURLOf(problemURL)
          cacheDirPath == IF home.err # NilErr THEN <<>>
                          ELSE home.dir \o <<"/", ".atctest">>
      IN  IF cut.panic THEN [app |-> NoApp, err |-> NilErr, panic |-> TRUE]
          ELSE IF home.err # NilErr
          THEN [app |-> NoApp, err |-> home.err, panic |-> FALSE]
          ELSE [app |-> [isNil |-> FALSE,
                         contest |-> a.contest, problem |-> a.problem,
                         command |-> a.command,
                         username |-> a.username, password |-> a.password,
                         contestURL |-> cut.url, problemURL |-> problemURL,
                         useCache |-> ~a.nocache, cacheDirPath |-> cacheDirPath],
                err |-> NilErr, panic |-> FALSE]

\* the characters of a -url value: a quote, a slash, any other character
URLChars == {"'", "/", "x"}

\* the command lines: every flag given or not, an unknown flag or none
ArgsDomain ==
    [bad : BOOLEAN,
     contest : {<<>>, <<"A", "b", "c">>},
     problem : {<<>>, <<"c">>},
     command : Commands,
     username : {<<>>, <<"u">>},
     password : {<<"p">>},
     url : SeqUpTo(URLChars, MaxURLLen),
     nocache : BOOLEAN]

HomeDirs ==
    {[dir |-> <<"/home/u">>, err |-> NilErr],
     [dir |-> <<>>, err |-> Err("missing HOME", "")]}

\* a call of New on the command line drawn by the initial state
NewCall ==
    /\ pc = "New"
    /\ newRet' = New(args, homeDir)
    /\ trace' = Append(trace, Ev("New", 0, <<>>))
    /\ pc' = "done"
    /\ UNCHANGED <<caller, args, homeDir, pairVars, checkVars, cacheVars,
                   webVars, loginVars, locVars, runVars>>

InitNew ==
    /\ pc = "New" /\ caller = "main" /\ trace = <<>>
    /\ args \in ArgsDomain
    /\ homeDir \in HomeDirs
    /\ newRet = NotCalled
    /\ IdlePair /\ IdleCheck /\ IdleCache /\ IdleWeb /\ IdleLogIn /\ IdleLocate /\ IdleRun

NextNew == NewCall

SpecNew == InitNew /\ [][NextNew]_vars

----------------------------------------------------------------------------
(* New: properties *)

NewCalled == pc = "done" /\ trace = <<Ev("New", 0, <<>>)>>

Returned(kind) == newRet.app = NoApp /\ ~newRet.panic /\ newRet.err.kind = kind

ReturnedApp == newRet.app # NoApp /\ ~newRet.panic /\ newRet.err = NilErr

\* C8: with a home directory that resolves, New returns "failed to parse
\* flags" when the flags do not parse; without -url, the error of the first
\* empty one of contest, problem and command; and an App without error when
\* the three are given or a -url is.
C8_NewValidation ==
    (NewCalled /\ homeDir.err = NilErr) =>
        IF args.bad THEN Returned("failed to parse flags")
        ELSE IF args.url # <<>> THEN ReturnedApp
        ELSE IF args.contest = <<>> THEN Returned("specify the contest")
        ELSE IF args.problem = <<>> THEN Returned("specify the problem")
        ELSE IF args.command = "" THEN Returned("specify the command")
        ELSE ReturnedApp

----------------------------------------------------------------------------
(* client.go: constructSamples *)

InputTitle == "IN"

OutputTitle == "OUT"

\* fmt.Sprintf("入力例%d", i)
inputKey(n) == InputTitle \o ToString(n)

\* fmt.Sprintf("出力例%d", i)
outputKey(n) == OutputTitle \o ToString(n)

\* the titles a page can carry: unnumbered, or numbered 1..MaxIndex
Keys == {InputTitle, OutputTitle}
        \cup {inputKey(n) : n \in 1..MaxIndex}
        \cup {outputKey(n) : n \in 1..MaxIndex}

\* the element maps: a map is a function from the keys it holds
ElementMaps == UNION {[D -> Texts] : D \in SUBSET Keys}

len(m) == Cardinality(DOMAIN m)

\* the loop "for i := 1; i <= numSamples; i++" from index n on, acc the
\* samples filled so far
RECURSIVE numberedLoop(_, _, _, _)
numberedLoop(m, numSamples, n, acc) ==
    IF n > numSamples THEN [samples |-> Slice(acc), err |-> NilErr]
    ELSE IF inputKey(n) \notin DOMAIN m
         THEN [samples |-> NilSlice, err |-> Err("could not find", inputKey(n))]
    ELSE IF outputKey(n) \notin DOMAIN m
         THEN [samples |-> NilSlice, err |-> Err("could not find", outputKey(n))]
    ELSE numberedLoop(m, numSamples, n + 1,
                      Append(acc, Sample(m[inputKey(n)], m[outputKey(n)])))

\* a faulty pairing that fills the numbered samples from the last index down
constructSamplesSwapped(m) ==
    IF len(m) = 0 THEN [samples |-> NilSlice, err |-> Err("no sample elements found", "")]
    ELSE IF len(m) % 2 # 0
         THEN [samples |-> NilSlice, err |-> Err("odd number of sample elements", ToString(len(m)))]
    ELSE IF len(m) \div 2 = 1 /\ InputTitle \in DOMAIN m /\ OutputTitle \in DOMAIN m
         THEN [samples |-> Slice(<<Sample(m[InputTitle], m[OutputTitle])>>), err |-> NilErr]
    ELSE LET r == numberedLoop(m, len(m) \div 2, 1, <<>>)
         IN  [r EXCEPT !.samples.elems =
                 [k \in DOMAIN r.samples.elems |->
                     r.samples.elems[Len(r.samples.elems) + 1 - k]]]

\* a faulty pairing that, when a later output key is absent, falls back to
\* the pairs before it
constructSamplesShort(m) ==
    IF len(m) = 0 THEN [samples |-> NilSlice, err |-> Err("no sample elements found", "")]
    ELSE IF len(m) % 2 # 0
         THEN [samples |-> NilSlice, err |-> Err("odd number of sample elements", ToString(len(m)))]
    ELSE IF len(m) \div 2 = 1 /\ InputTitle \in DOMAIN m /\ OutputTitle \in DOMAIN m
         THEN [samples |-> Slice(<<Sample(m[InputTitle], m[OutputTitle])>>), err |-> NilErr]
    ELSE LET r == numberedLoop(m, len(m) \div 2, 1, <<>>)
         IN  IF r.err = NilErr \/ r.err.detail = inputKey(1) THEN r
             ELSE numberedLoop(m, 1, 1, <<>>)

\* constructSamples(elements)
constructSamples(m) ==
    IF len(m) = 0 THEN [samples |-> NilSlice, err |-> Err("no sample elements found", "")]
    ELSE IF len(m) % 2 # 0
         THEN [samples |-> NilSlice, err |-> Err("odd number of sample elements", ToString(len(m)))]
    ELSE IF len(m) \div 2 = 1 /\ InputTitle \in DOMAIN m /\ OutputTitle \in DOMAIN m
         THEN [samples |-> Slice(<<Sample(m[InputTitle], m[OutputTitle])>>), err |-> NilErr]
    ELSE numberedLoop(m, len(m) \div 2, 1, <<>>)

\* a call of constructSamples on the map drawn by the initial state
ConstructSamples ==
    /\ pc = "constructSamples"
    /\ pairRet' = constructSamples(elements)
    /\ trace' = Append(trace, Ev("constructSamples", len(elements), <<>>))
    /\ pc' = "done"
    /\ UNCHANGED <<caller, elements, checkVars, newVars, cacheVars,
                   webVars, loginVars, locVars, runVars>>

InitPair ==
    /\ pc = "constructSamples" /\ caller = "main" /\ trace = <<>>
    /\ elements \in ElementMaps
    /\ pairRet = NoRet
    /\ IdleCheck /\ IdleNew /\ IdleCache /\ IdleWeb /\ IdleLogIn /\ IdleLocate /\ IdleRun

NextPair == ConstructSamples

SpecPair == InitPair /\ [][NextPair]_vars

----------------------------------------------------------------------------
(* constructSamples: properties *)

PairCalled == pc = "done" /\ trace = <<Ev("constructSamples", len(elements), <<>>)>>

\* the map is the single pair without numbering
UnnumberedPair(m) == len(m) = 2 /\ InputTitle \in DOMAIN m /\ OutputTitle \in DOMAIN m

\* C2: whenever constructSamples returns a list without error, the list has
\* len(elements)/2 samples, and unless the map is the single unnumbered pair
\* its n-th sample is {elements[IN n], elements[OUT n]} for every n.
C2_PairedInOrder ==
    (PairCalled /\ pairRet.err = NilErr) =>
        /\ ~pairRet.samples.isNil
        /\ Len(pairRet.samples.elems) * 2 = len(elements)
        /\ UnnumberedPair(elements) =>
              pairRet.samples.elems = <<Sample(elements[InputTitle], elements[OutputTitle])>>
        /\ ~UnnumberedPair(elements) =>
              \A n \in 1..Len(pairRet.samples.elems) :
                  /\ inputKey(n) \in DOMAIN elements
                  /\ outputKey(n) \in DOMAIN elements
                  /\ pairRet.samples.elems[n] =
                        Sample(elements[inputKey(n)], elements[outputKey(n)])

\* two numbered pairs that differ were paired, in the order of their suffix
C2_Witness ==
    /\ PairCalled /\ pairRet.err = NilErr
    /\ Len(pairRet.samples.elems) = 2
    /\ ~UnnumberedPair(elements)
    /\ pairRet.samples.elems[1] # pairRet.samples.elems[2]
    /\ pairRet.samples.elems[1].Input # pairRet.samples.elems[1].Output

\* the numbered keys 1..n of which the map lacks one
MissingIndexes(m) ==
    {n \in 1..(len(m) \div 2) : inputKey(n) \notin DOMAIN m \/ outputKey(n) \notin DOMAIN m}

Min(S) == CHOOSE x \in S : \A y \in S : x <= y

\* C3: for a map of even non-zero size that is not the single unnumbered
\* pair and lacks a numbered key, constructSamples returns no list and the
\* error "could not find" naming the input key of the smallest incomplete
\* index if that is absent, and otherwise its output key.
C3_MissingKeyNamed ==
    (/\ PairCalled
     /\ len(elements) > 0 /\ len(elements) % 2 = 0
     /\ ~UnnumberedPair(elements)
     /\ MissingIndexes(elements) # {}) =>
        LET n == Min(MissingIndexes(elements))
        IN  /\ pairRet.samples = NilSlice
            /\ pairRet.err.kind = "could not find"
            /\ pairRet.err.detail =
                  IF inputKey(n) \notin DOMAIN elements THEN inputKey(n) ELSE outputKey(n)

\* the spec's example: "IN2" is there, "OUT2" is not
C3_Witness ==
    /\ PairCalled
    /\ len(elements) = 4
    /\ {inputKey(1), outputKey(1), inputKey(2)} \subseteq DOMAIN elements
    /\ outputKey(2) \notin DOMAIN elements
    /\ pairRet.err = Err("could not find", outputKey(2))

----------------------------------------------------------------------------
(* encoding/json, as cacheSamples and getCachedSamples use it on []Sample *)

DQ == "\""

BS == "\\"

\* a byte that is not valid UTF-8, and the replacement character U+FFFD
BadByte == "0xFF"

Replacement == "U+FFFD"

\* the characters of a text, as json.Marshal writes them in a string
encodeRune(c) ==
    CASE c = DQ -> <<BS, DQ>>
      [] c = BS -> <<BS, BS>>
      [] c = "\n" -> <<BS, "n">>
      [] c = "<" -> <<BS, "u", "0", "0", "3", "c">>
      [] c = BadByte -> <<BS, "u", "f", "f", "f", "d">>
      [] OTHER -> <<c>>

RECURSIVE encodeRunes(_)
encodeRunes(t) == IF t = <<>> THEN <<>> ELSE encodeRune(Head(t)) \o encodeRunes(Tail(t))

encodeString(t) == <<DQ>> \o encodeRunes(t) \o <<DQ>>

encodeSample(x) ==
    <<"{", DQ, "Input", DQ, ":">> \o encodeString(x.Input)
    \o <<",", DQ, "Output", DQ, ":">> \o encodeString(x.Output) \o <<"}">>

RECURSIVE encodeSamples(_)
encodeSamples(xs) ==
    IF xs = <<>> THEN <<>>
    ELSE encodeSample(Head(xs))
         \o (IF Tail(xs) = <<>> THEN <<>> ELSE <<",">>)
         \o encodeSamples(Tail(xs))

\* json.Marshal(samples): "null" for a nil slice
Marshal(xs) ==
    IF xs.isNil THEN <<"null">> ELSE <<"[">> \o encodeSamples(xs.elems) \o <<"]">>

ParseFail == [ok |-> FALSE, val |-> <<>>, next |-> 0]

\* the four hexadecimal digits after "\u", for the escapes Marshal writes
decodeHex(h) ==
    IF h = <<"0", "0", "3", "c">> THEN "<"
    ELSE IF h = <<"f", "f", "f", "d">> THEN Replacement
    ELSE ""

\* the character a string literal holds at position p, and the number of
\* tokens that write it; n = 0 when the literal is malformed there
decodeRune(b, p) ==
    IF b[p] = "\n" THEN [n |-> 0, c |-> ""]
    ELSE IF b[p] = BadByte THEN [n |-> 1, c |-> Replacement]
    ELSE IF b[p] # BS THEN [n |-> 1, c |-> b[p]]
    ELSE IF p + 1 > Len(b) THEN [n |-> 0, c |-> ""]
    ELSE IF b[p + 1] \in {DQ, BS} THEN [n |-> 2, c |-> b[p + 1]]
    ELSE IF b[p + 1] = "n" THEN [n |-> 2, c |-> "\n"]
    ELSE IF b[p + 1] = "u" /\ p + 5 <= Len(b) /\ decodeHex(SubSeq(b, p + 2, p + 5)) # ""
         THEN [n |-> 6, c |-> decodeHex(SubSeq(b, p + 2, p + 5))]
    ELSE [n |-> 0, c |-> ""]

\* the characters of a string literal from position p, up to its closing quote
RECURSIVE decodeRunes(_, _, _)
decodeRunes(b, p, acc) ==
    IF p > Len(b) THEN ParseFail
    ELSE IF b[p] = DQ THEN [ok |-> TRUE, val |-> acc, next |-> p + 1]
    ELSE IF decodeRune(b, p).n = 0 THEN ParseFail
    ELSE decodeRunes(b, p + decodeRune(b, p).n, Append(acc, decodeRune(b, p).c))

decodeString(b, p) ==
    IF p <= Len(b) /\ b[p] = DQ THEN decodeRunes(b, p + 1, <<>>) ELSE ParseFail

\* whether b holds the tokens lit at position p
At(b, p, lit) == p + Len(lit) - 1 <= Len(b) /\ SubSeq(b, p, p + Len(lit) - 1) = lit

\* one object {"Input":"...","Output":"..."} at position p: the end of the
\* object, o being its Output literal and a its Input literal
sampleEnd(b, a, o) ==
    IF ~o.ok \/ ~At(b, o.next, <<"}">>) THEN ParseFail
    ELSE [ok |-> TRUE, val |-> Sample(a.val, o.val), next |-> o.next + 1]

sampleOutput(b, a) ==
    IF ~a.ok \/ ~At(b, a.next, <<",", DQ, "Output", DQ, ":">>) THEN ParseFail
    ELSE sampleEnd(b, a, decodeString(b, a.next + 5))

decodeSample(b, p) ==
    IF ~At(b, p, <<"{", DQ, "Input", DQ, ":">>) THEN ParseFail
    ELSE sampleOutput(b, decodeString(b, p + 5))

\* the objects of an array from position p, up to its closing bracket; x is
\* the object decoded last
RECURSIVE decodeSamples(_, _, _)
samplesAfter(b, acc, x) ==
    IF ~x.ok THEN ParseFail
    ELSE IF At(b, x.next, <<"]">>) /\ x.next = Len(b)
         THEN [ok |-> TRUE, val |-> Append(acc, x.val), next |-> x.next + 1]
    ELSE IF At(b, x.next, <<",">>) THEN decodeSamples(b, x.next + 1, Append(acc, x.val))
    ELSE ParseFail

decodeSamples(b, p, acc) == samplesAfter(b, acc, decodeSample(b, p))

unmarshalled(r) ==
    IF r.ok THEN [ok |-> TRUE, samples |-> Slice(r.val)]
    ELSE [ok |-> FALSE, samples |-> NilSlice]

\* json.Unmarshal(bytes, &samples) on the documents Marshal writes, whole
\* or cut short, and on text that is no JSON
Unmarshal(b) ==
    IF b = <<"null">> THEN [ok |-> TRUE, samples |-> NilSlice]
    ELSE IF b = <<"[", "]">> THEN [ok |-> TRUE, samples |-> Slice(<<>>)]
    ELSE IF ~At(b, 1, <<"[">>) THEN [ok |-> FALSE, samples |-> NilSlice]
    ELSE unmarshalled(decodeSamples(b, 2, <<>>))

----------------------------------------------------------------------------
(* client.go: the sample cache, fetchSampleElements and GetSamples *)

\* a map with key k set to v, and with key k deleted
Put(m, k, v) == (k :> v) @@ m

Delete(m, k) == [x \in (DOMAIN m) \ {k} |-> m[x]]

\* path.Join(c.cacheDirPath, escapedURL + ".json")
cacheFilePath(c, problemURL) ==
    IF c.cacheDirPath = <<>> THEN ReplaceAll(problemURL, "/", "_") \o <<".json">>
    ELSE c.cacheDirPath \o <<"/">> \o ReplaceAll(problemURL, "/", "_") \o <<".json">>

\* os.Stat(c.cacheDirPath): "present", "absent" (IsNotExist; also the empty
\* path), or "denied" (any other error)
statDir(c, d) == IF c.cacheDirPath = <<>> THEN "absent" ELSE d.dir

\* what getCachedSamples returns when json.Unmarshal returned u
cachedOf(u) ==
    IF ~u.ok THEN [samples |-> NilSlice, ok |-> FALSE]
    ELSE [samples |-> u.samples, ok |-> TRUE]

\* getCachedSamples(cacheFilePath) on disk d
getCachedSamples(c, d, path) ==
    IF statDir(c, d) # "present" THEN [samples |-> NilSlice, ok |-> FALSE]
    ELSE IF path \notin DOMAIN d.files THEN [samples |-> NilSlice, ok |-> FALSE]
    ELSE cachedOf(Unmarshal(d.files[path]))

\* what the file system does to a store: nothing wrong, MkdirAll fails, the
\* file cannot be opened, or the write stops after the file was truncated
Faults == {"none", "mkdir", "open", "short"}

\* cacheSamples(cacheFilePath, samples) on disk d under fault w: the error
\* and the disk afterwards
cacheSamples(c, d, path, xs, w) ==
    IF statDir(c, d) = "denied" THEN [err |-> Err("stat", "denied"), disk |-> d]
    ELSE IF statDir(c, d) = "absent" /\ (w = "mkdir" \/ c.cacheDirPath = <<>>)
         THEN [err |-> Err("mkdir", ""), disk |-> d]
    ELSE LET made == [d EXCEPT !.dir = "present"]
         IN  IF w = "open" THEN [err |-> Err("open", ""), disk |-> made]
             ELSE IF w = "short"
                  THEN [err |-> Err("write", ""),
                        disk |-> [made EXCEPT !.files = Put(@, path, <<>>)]]
             ELSE [err |-> NilErr,
                   disk |-> [made EXCEPT !.files = Put(@, path, Marshal(xs))]]

\* a <pre> block of a page: the text of the <h3> under its parent, of the
\* <h3> under its grandparent, and its own text
Pre(parentTitle, grandTitle, text) ==
    [parentTitle |-> parentTitle, grandTitle |-> grandTitle, text |-> text]

IsSampleTitle(title) == title # <<>> /\ Head(title) \in {InputTitle, OutputTitle}

\* strings.Replace(title, " ", "", -1), as the key of the map
RECURSIVE titleKey(_)
titleKey(title) ==
    IF title = <<>> THEN ""
    ELSE (IF Head(title) = " " THEN "" ELSE Head(title)) \o titleKey(Tail(title))

\* the OnHTML("pre") handler, run on the blocks of the page in document order
RECURSIVE onPre(_, _)
onPre(pres, m) ==
    IF pres = <<>> THEN m
    ELSE LET e == Head(pres)
         IN  onPre(Tail(pres),
                   IF IsSampleTitle(e.parentTitle) THEN Put(m, titleKey(e.parentTitle), e.text)
                   ELSE IF IsSampleTitle(e.grandTitle) THEN Put(m, titleKey(e.grandTitle), e.text)
                   ELSE m)

\* fetchSampleElements(problemURL), page being what the visit of the URL gives
fetchSampleElements(page) ==
    IF ~page.ok THEN [elements |-> <<>>, err |-> Err("could not get HTML", "")]
    ELSE [elements |-> onPre(page.pres, <<>>), err |-> NilErr]

\* GetSamples after "c.cacheSamples(cacheFilePath, samples)" returned st
getSamplesStored(path, problemURL, xs, st) ==
    [samples |-> xs, err |-> NilErr, disk |-> st.disk,
     io |-> <<Ev("fetch", 1, problemURL),
              Ev("store", IF st.err = NilErr THEN 1 ELSE 0, path)>>,
     stored |-> (st.err = NilErr)]

\* GetSamples after "c.constructSamples(elements)" returned s
getSamplesPaired(c, d, path, problemURL, w, s) ==
    IF s.err # NilErr
    THEN [samples |-> NilSlice, err |-> s.err, disk |-> d,
          io |-> <<Ev("fetch", 1, problemURL)>>, stored |-> FALSE]
    ELSE getSamplesStored(path, problemURL, s.samples,
                          cacheSamples(c, d, path, s.samples, w))

\* GetSamples after "c.fetchSampleElements(problemURL)" returned f
getSamplesFetched(c, d, path, problemURL, w, f) ==
    IF f.err # NilErr
    THEN [samples |-> NilSlice, err |-> f.err, disk |-> d,
          io |-> <<Ev("fetch", 0, problemURL)>>, stored |-> FALSE]
    ELSE getSamplesPaired(c, d, path, problemURL, w, constructSamples(f.elements))

\* GetSamples after "c.getCachedSamples(cacheFilePath)" returned hit
getSamplesLooked(c, d, path, problemURL, page, w, hit) ==
    IF hit.ok
    THEN [samples |-> hit.samples, err |-> NilErr, disk |-> d,
          io |-> <<Ev("lookup", 1, path)>>, stored |-> FALSE]
    ELSE [getSamplesFetched(c, d, path, problemURL, w, fetchSampleElements(page))
             EXCEPT !.io = <<Ev("lookup", 0, path)>> \o @]

\* a faulty GetSamples that consults the cache whatever c.useCache says
GetSamplesAlwaysLookup(c, d, problemURL, page, w) ==
    getSamplesLooked(c, d, cacheFilePath(c, problemURL), problemURL, page, w,
                     getCachedSamples(c, d, cacheFilePath(c, problemURL)))

\* GetSamples(problemURL) on disk d under fault w, the site serving page:
\* the list and the error it returns, the disk afterwards, the lookups,
\* fetches and stores it made (io), and whether its store succeeded
GetSamples(c, d, problemURL, page, w) ==
    IF c.useCache
    THEN getSamplesLooked(c, d, cacheFilePath(c, problemURL), problemURL, page, w,
                          getCachedSamples(c, d, cacheFilePath(c, problemURL)))
    ELSE getSamplesFetched(c, d, cacheFilePath(c, problemURL), problemURL, w,
                           fetchSampleElements(page))

\* the problem URLs: two that differ only by "/" and "_"
URLs == {<<"a", "/", "b">>, <<"a", "_", "b">>}

\* texts with the characters json.Marshal escapes or replaces
PlainSample == Sample(<<"3", "\n">>, <<"9", "\n">>)

OtherSample == Sample(<<"5", "\n">>, <<"2", "5", "\n">>)

EscapedSample == Sample(<<DQ, BS, "<">>, <<Replacement>>)

BadByteSample == Sample(<<BadByte>>, <<>>)

\* the lists handed to cacheSamples
CacheLists ==
    {NilSlice, Slice(<<>>), Slice(<<PlainSample>>), Slice(<<PlainSample, OtherSample>>),
     Slice(<<OtherSample, PlainSample>>), Slice(<<EscapedSample>>),
     Slice(<<BadByteSample>>)}

\* the problem pages: the visit fails; no sample block; one pair without
\* numbers; two numbered pairs, one block under a nested element; a numbered
\* page without its last output; a page with one block
ProblemPages ==
    {NoPage,
     [ok |-> TRUE, pres |-> <<Pre(<<"note">>, <<>>, <<"x">>)>>],
     [ok |-> TRUE, pres |-> <<Pre(<<InputTitle>>, <<>>, PlainSample.Input),
                              Pre(<<OutputTitle>>, <<>>, PlainSample.Output)>>],
     [ok |-> TRUE, pres |-> <<Pre(<<InputTitle, " ", "1">>, <<>>, PlainSample.Input),
                              Pre(<<>>, <<OutputTitle, " ", "1">>, PlainSample.Output),
                              Pre(<<InputTitle, " ", "2">>, <<>>, OtherSample.Input),
                              Pre(<<OutputTitle, " ", "2">>, <<>>, OtherSample.Output)>>],
     [ok |-> TRUE, pres |-> <<Pre(<<InputTitle, " ", "1">>, <<>>, PlainSample.Input),
                              Pre(<<OutputTitle, " ", "1">>, <<>>, PlainSample.Output),
                              Pre(<<InputTitle, " ", "2">>, <<>>, OtherSample.Input),
                              Pre(<<"note">>, <<>>, <<"x">>)>>],
     [ok |-> TRUE, pres |-> <<Pre(<<InputTitle, " ", "1">>, <<>>, PlainSample.Input)>>]}

\* a call of cacheSamples for a URL and a list
CacheSamplesCall ==
    /\ pc = "cache"
    /\ \E url \in URLs, xs \in CacheLists, w \in Faults :
          \E path \in {cacheFilePath(client, url)} :
          \E r \in {cacheSamples(client, disk, path, xs, w)} :
              /\ disk' = r.disk
              /\ stored' = IF r.err = NilErr THEN Put(stored, path, xs)
                           ELSE Delete(stored, path)
              /\ io' = <<Ev("store", IF r.err = NilErr THEN 1 ELSE 0, path)>>
              /\ cacheRet' = [op |-> "cacheSamples", url |-> url, samples |-> xs,
                              ok |-> (r.err = NilErr), err |-> r.err,
                              page |-> NoPage, before |-> disk, after |-> r.disk]
    /\ UNCHANGED <<pc, caller, trace, client, newVars, pairVars, checkVars,
                   webVars, loginVars, locVars, runVars>>

\* a call of getCachedSamples for a URL
GetCachedSamplesCall ==
    /\ pc = "cache"
    /\ \E url \in URLs :
          \E path \in {cacheFilePath(client, url)} :
          \E r \in {getCachedSamples(client, disk, path)} :
              /\ io' = <<Ev("lookup", IF r.ok THEN 1 ELSE 0, path)>>
              /\ cacheRet' = [op |-> "getCachedSamples", url |-> url,
                              samples |-> r.samples, ok |-> r.ok, err |-> NilErr,
                              page |-> NoPage, before |-> disk, after |-> disk]
    /\ UNCHANGED <<pc, caller, trace, client, disk, stored, newVars, pairVars, checkVars,
                   webVars, loginVars, locVars, runVars>>

\* the history of the stores after a call of GetSamples that returned r
storedAfter(r, path) ==
    IF r.stored THEN Put(stored, path, r.samples)
    ELSE IF r.io # <<>> /\ r.io[Len(r.io)].op = "store" THEN Delete(stored, path)
    ELSE stored

\* a call of GetSamples for a URL, the site serving some problem page
GetSamplesCall ==
    /\ pc = "cache"
    /\ \E url \in URLs, page \in ProblemPages, w \in Faults :
          \E r \in {GetSamples(client, disk, url, page, w)} :
              /\ disk' = r.disk
              /\ stored' = storedAfter(r, cacheFilePath(client, url))
              /\ io' = r.io
              /\ cacheRet' = [op |-> "GetSamples", url |-> url, samples |-> r.samples,
                              ok |-> (r.err = NilErr), err |-> r.err,
                              page |-> page, before |-> disk, after |-> r.disk]
    /\ UNCHANGED <<pc, caller, trace, client, newVars, pairVars, checkVars,
                   webVars, loginVars, locVars, runVars>>

\* something else writes or removes a cache file: another run of the tool
\* interrupted, or the user clearing the cache
ExternalWrite ==
    /\ pc = "cache"
    /\ disk.dir = "present"
    /\ \E url \in URLs :
          LET path == cacheFilePath(client, url)
          IN  /\ \/ disk' = [disk EXCEPT !.files = Put(@, path, <<"[", "{">>)]
                 \/ disk' = [disk EXCEPT !.files = Delete(@, path)]
              /\ stored' = Delete(stored, path)
    /\ UNCHANGED <<pc, caller, trace, client, io, cacheRet, newVars, pairVars, checkVars,
                   webVars, loginVars, locVars, runVars>>

InitCache ==
    /\ pc = "cache" /\ caller = "main" /\ trace = <<>>
    /\ client \in [useCache : BOOLEAN, cacheDirPath : {<<>>, <<"~/.atctest">>}]
    /\ disk \in [dir : {"absent", "present", "denied"}, files : {<<>>}]
    /\ stored = <<>> /\ io = <<>> /\ cacheRet = NoCacheRet
    /\ IdleNew /\ IdlePair /\ IdleCheck /\ IdleWeb /\ IdleLogIn /\ IdleLocate /\ IdleRun

NextCache == CacheSamplesCall \/ GetCachedSamplesCall \/ GetSamplesCall \/ ExternalWrite

SpecCache == InitCache /\ [][NextCache]_vars

----------------------------------------------------------------------------
(* The sample cache and GetSamples: properties *)

\* C4: a lookup for a URL, after a store to its file returned no error and
\* nothing else wrote the file since, finds the stored list: the same
\* length, the same samples in the same order.
C4_RoundTrip ==
    (/\ cacheRet.op = "getCachedSamples"
     /\ cacheFilePath(client, cacheRet.url) \in DOMAIN stored) =>
        /\ cacheRet.ok
        /\ cacheRet.samples.elems = stored[cacheFilePath(client, cacheRet.url)].elems

\* what GetSamples extracts from the page of its call
extracted(page) == constructSamples(fetchSampleElements(page).elements)

\* C5: in a call of GetSamples, (a) with caching disabled no lookup is made
\* and the page is fetched, the result being the samples of the page whatever
\* the cache holds; (b) whenever the page was fetched and paired without
\* error a store to the URL's file is attempted last, whatever the flag;
\* (c) with caching enabled and a record found, the record is returned and
\* the call makes no fetch and no store and leaves the disk alone.
C5_CacheBypass ==
    cacheRet.op = "GetSamples" =>
        LET path == cacheFilePath(client, cacheRet.url)
            hit == getCachedSamples(client, cacheRet.before, path)
            ext == extracted(cacheRet.page)
            paired == cacheRet.page.ok /\ ext.err = NilErr
            ops == [k \in DOMAIN io |-> io[k].op]
        IN  /\ ~client.useCache =>
                /\ \A k \in DOMAIN io : io[k].op # "lookup"
                /\ io # <<>> /\ io[1].op = "fetch" /\ io[1].text = cacheRet.url
                /\ paired => cacheRet.samples = ext.samples /\ cacheRet.err = NilErr
            /\ (paired /\ ~(client.useCache /\ hit.ok)) =>
                /\ ops = (IF client.useCache THEN <<"lookup">> ELSE <<>>) \o <<"fetch", "store">>
                /\ io[Len(io)].text = path
            /\ (client.useCache /\ hit.ok) =>
                /\ cacheRet.samples = hit.samples /\ cacheRet.err = NilErr
                /\ ops = <<"lookup">>
                /\ cacheRet.after = cacheRet.before

\* caching is disabled, the cache holds a record for the URL that differs
\* from the page, and the call returned the page's samples and stored them
C5_Witness ==
    /\ cacheRet.op = "GetSamples"
    /\ ~client.useCache
    /\ getCachedSamples(client, cacheRet.before, cacheFilePath(client, cacheRet.url)).ok
    /\ getCachedSamples(client, cacheRet.before, cacheFilePath(client, cacheRet.url)).samples
          # cacheRet.samples
    /\ cacheRet.err = NilErr
    /\ io[Len(io)] = Ev("store", 1, cacheFilePath(client, cacheRet.url))

----------------------------------------------------------------------------
(* client.go: IsContestBeingHeld, LogIn, isLoggedIn, GetProblemURL *)

\* IsContestBeingHeld(contestURL), page being what the visit of the URL
\* gives: button says whether "form > button.btn-lg.center-block" matches
IsContestBeingHeld(page) ==
    IF ~page.ok THEN [beingHeld |-> FALSE, err |-> Err("could not get HTML", "contest")]
    ELSE [beingHeld |-> page.button, err |-> NilErr]

\* "UserScreenName%3A", kept in one piece
Marker == "UserScreenName%3A"

\* isLoggedIn(username) on the cookies of baseURL
isLoggedIn(jar, username) == \E v \in jar : Contains(v, <<Marker>> \o username)

\* the session cookie of a logged-in user, and one of a visitor
SessionOf(name) == <<"csrf_token%3Ax", "%00", Marker>> \o name \o <<"%00">>

AnonymousSession == <<"csrf_token%3Ax", "%00">>

UserNames == {<<"u">>, <<"v">>}

\* the cookies the collector may hold
CookieJars == {{}, {AnonymousSession}} \cup {{SessionOf(n)} : n \in UserNames}

\* what the server does to the POST of the login form: no answer, or an
\* answer that leaves the collector with some cookies
PostReplies == {[ok |-> FALSE, jar |-> {}]} \cup {[ok |-> TRUE, jar |-> j] : j \in CookieJars}

\* the values of the csrf_token fields of a login page
TokenValues == {<<>>, <<"t">>}

\* loginErr after the handler posted the form and the server replied
loginErrAfter(username, reply, jar, old) ==
    IF ~reply.ok THEN Err("login error", "post")
    ELSE IF ~isLoggedIn(jar, username) THEN Err("login error", "username/password may be wrong")
    ELSE old

\* the task list an anchor "td > a[href]": its text and its href
Anchor(text, href) == [text |-> text, href |-> href]

\* the OnHTML("td > a[href]") handler, run on the anchors in document
\* order; url is the variable problemURL it assigns
RECURSIVE onAnchors(_, _, _)
onAnchors(anchors, problem, url) ==
    IF anchors = <<>> THEN url
    ELSE onAnchors(Tail(anchors), problem,
                   IF Head(anchors).text = ToUpper(problem)
                   THEN baseURL \o Head(anchors).href ELSE url)

\* fmt.Sprintf("%s/contests/%s/tasks", c.baseURL, strings.ToLower(contest))
problemListURL(contest) == baseURL \o <<"/contests/">> \o ToLower(contest) \o <<"/tasks">>

\* GetProblemURL once the handler has run and left url
problemURLFound(url) ==
    IF url = <<>> THEN [url |-> <<>>, err |-> Err("could not find problem page", "")]
    ELSE [url |-> url, err |-> NilErr]

\* GetProblemURL(contest, problem), page being what the visit of the task
\* list gives
GetProblemURL(contest, problem, page) ==
    IF ~page.ok THEN [url |-> <<>>, err |-> Err("could not get HTML", "tasks")]
    ELSE problemURLFound(onAnchors(page.anchors, problem, <<>>))

----------------------------------------------------------------------------
(* checker.go: Checker.Check and Checker.checkOne *)

\* commander.Commander.Run(command, input): the captured standard output,
\* or an execution error
RunOutcomes ==
    {[out |-> t, err |-> NilErr] : t \in Texts \cup {<<>>}}
    \cup {[out |-> <<>>, err |-> Err("exec", "exit status 1")]}

\* checkOne, given what commander.Run returned for sample.Input
checkOne(r, sample) ==
    IF r.err # NilErr THEN [success |-> FALSE, actual |-> <<>>, err |-> r.err]
    ELSE [success |-> (r.out = sample.Output), actual |-> r.out, err |-> NilErr]

\* a line (or a text) written to outStream
Out(kind, n, text) == [kind |-> kind, n |-> n, text |-> text]

\* what one iteration of Check's loop writes for sample number n
reportOf(n, sample, c) ==
    <<Out("sample", n, <<>>)>> \o
    (IF c.err # NilErr
        THEN <<Out("ERROR", 0, <<>>), Out(c.err.kind, 0, <<>>)>>
     ELSE IF c.success
        THEN <<Out("SUCCESS", 0, <<>>)>>
     ELSE <<Out("FAILURE", 0, <<>>),
            Out("input:", 0, sample.Input),
            Out("expected output:", 0, sample.Output),
            Out("actual output:", 0, c.actual)>>)

\* a faulty flag that remembers the last sample only
successAfterLast(flag, c) == c.err = NilErr /\ c.success

\* successAll after one iteration of Check's loop
successAfter(flag, c) == IF c.err # NilErr \/ ~c.success THEN FALSE ELSE flag

\* one iteration of "for i, sample := range samples": the run of the
\* command, the comparison and the report
CheckIteration ==
    /\ pc = "Check"
    /\ i < Len(samples.elems)
    /\ \E r \in RunOutcomes :
          LET sample == samples.elems[i + 1]
              c == checkOne(r, sample)
          IN  /\ trace' = Append(trace, Ev("commander.Run", i + 1, sample.Input))
              /\ outStream' = outStream \o reportOf(i + 1, sample, c)
              /\ successAll' = successAfter(successAll, c)
              /\ runOuts' = Append(runOuts, r)
    /\ i' = i + 1
    /\ UNCHANGED <<pc, caller, command, samples, checkRet, pairVars, newVars, cacheVars,
                   webVars, loginVars, locVars, runVars>>

\* "return successAll"
CheckReturn ==
    /\ pc = "Check"
    /\ i = Len(samples.elems)
    /\ checkRet' = successAll
    /\ pc' = IF caller = "Run" THEN "RunAfterCheck" ELSE "done"
    /\ UNCHANGED <<caller, trace, command, samples, i, successAll, outStream,
                   runOuts, pairVars, newVars, cacheVars,
                   webVars, loginVars, locVars, runVars>>

SampleLists ==
    {NilSlice} \cup {Slice(s) : s \in SeqUpTo({Sample(a, b) : a, b \in Texts}, MaxSamples)}

InitCheck ==
    /\ pc = "Check" /\ caller = "main" /\ trace = <<>>
    /\ command \in Commands
    /\ samples \in SampleLists
    /\ i = 0 /\ successAll = TRUE /\ outStream = <<>> /\ runOuts = <<>>
    /\ checkRet = TRUE
    /\ IdlePair /\ IdleNew /\ IdleCache /\ IdleWeb /\ IdleLogIn /\ IdleLocate /\ IdleRun

NextCheck == CheckIteration \/ CheckReturn

SpecCheck == InitCheck /\ [][NextCheck]_vars

----------------------------------------------------------------------------
(* Check: properties *)

\* the lines "sample n:" of a report, in the order written
RECURSIVE sampleLines(_)
sampleLines(out) ==
    IF out = <<>> THEN <<>>
    ELSE (IF Head(out).kind = "sample" THEN <<Head(out).n>> ELSE <<>>)
         \o sampleLines(Tail(out))

\* C1: when Check has returned, it returned true exactly if every sample's
\* run gave no error and an output equal to the sample's Output; the
\* command was run once for every sample, in list order, on the sample's
\* Input; and the report holds one line "sample n:" for n = 1..len(samples),
\* in that order.
C1_CheckAllSamples ==
    (pc = "done" /\ caller = "main") =>
        /\ Len(runOuts) = Len(samples.elems)
        /\ checkRet = (\A n \in 1..Len(samples.elems) :
                          /\ runOuts[n].err = NilErr
                          /\ runOuts[n].out = samples.elems[n].Output)
        /\ trace = [n \in 1..Len(samples.elems) |->
                       Ev("commander.Run", n, samples.elems[n].Input)]
        /\ sampleLines(outStream) = [n \in 1..Len(samples.elems) |-> n]

\* a first sample that ended in ERROR or FAILURE, then a second one that
\* was still run and succeeded
C1_Witness ==
    /\ pc = "done" /\ caller = "main"
    /\ Len(samples.elems) = 2
    /\ runOuts[1].err # NilErr
    /\ runOuts[2].err = NilErr /\ runOuts[2].out = samples.elems[2].Output
    /\ checkRet = FALSE

----------------------------------------------------------------------------
(* client.go: LogIn, step by step *)

\* where control goes when the operation called returns
ReturnTo(c, after) == IF c = "Run" THEN after ELSE "done"

\* LogIn up to the end of its visit of the login page when that visit runs
\* no handler: the check of the arguments, the registration of the handler
\* and the request
LogInEnter ==
    /\ pc = "LogIn"
    /\ csrfToken' = <<>>
    /\ elem' = 0
    /\ IF loginArgs.username = <<>> \/ loginArgs.password = <<>>
       THEN /\ loginRet' = Err("you need to provide username and password", "")
            /\ pc' = ReturnTo(caller, "RunAfterLogIn")
            /\ UNCHANGED <<trace, loginErr>>
       ELSE /\ trace' = Append(trace, Ev("Visit", 0, baseURL \o <<"/login">>))
            /\ loginErr' = NilErr
            /\ IF ~site.loginPage.ok
               THEN /\ loginRet' = Err("could not get HTML", "login")
                    /\ pc' = ReturnTo(caller, "RunAfterLogIn")
               ELSE /\ loginRet' = loginRet
                    /\ pc' = "LogInVisit"
    /\ UNCHANGED <<caller, webVars, loginArgs, locVars, runVars, newVars, cacheVars,
                   pairVars, checkVars>>

\* one run of the OnHTML(input[name="csrf_token"]) handler, on the next
\* csrf_token field of the login page
LogInHandler ==
    /\ pc = "LogInVisit"
    /\ elem < Len(site.loginPage.tokens)
    /\ elem' = elem + 1
    /\ IF csrfToken # <<>>
       THEN UNCHANGED <<csrfToken, loginErr, cookies, trace>>
       ELSE /\ csrfToken' = site.loginPage.tokens[elem + 1]
            /\ trace' = Append(trace, Ev("Post", elem + 1, site.loginPage.tokens[elem + 1]))
            /\ \E reply \in PostReplies :
                  /\ cookies' = IF reply.ok THEN reply.jar ELSE cookies
                  /\ loginErr' = loginErrAfter(loginArgs.username, reply, cookies', loginErr)
    /\ UNCHANGED <<pc, caller, site, loginArgs, loginRet, locVars, runVars, newVars,
                   cacheVars, pairVars, checkVars>>

\* the visit is over: "return loginErr"
LogInReturn ==
    /\ pc = "LogInVisit"
    /\ elem = Len(site.loginPage.tokens)
    /\ loginRet' = loginErr
    /\ pc' = ReturnTo(caller, "RunAfterLogIn")
    /\ UNCHANGED <<caller, trace, webVars, loginArgs, csrfToken, loginErr, elem,
                   locVars, runVars, newVars, cacheVars, pairVars, checkVars>>

LoginPages ==
    {[ok |-> FALSE, tokens |-> <<>>]}
    \cup {[ok |-> TRUE, tokens |-> t] : t \in SeqUpTo(TokenValues, MaxTokens)}

InitLogIn ==
    /\ pc = "LogIn" /\ caller = "main" /\ trace = <<>>
    /\ site \in [contestPage : {NoSite.contestPage}, loginPage : LoginPages,
                 tasksPage : {NoSite.tasksPage}, problemPage : {NoPage}]
    /\ cookies \in CookieJars
    /\ loginArgs \in [username : {<<>>} \cup UserNames, password : {<<>>, <<"p">>}]
    /\ csrfToken = <<>> /\ loginErr = NilErr /\ elem = 0 /\ loginRet = NoLogInRet
    /\ IdleNew /\ IdlePair /\ IdleCheck /\ IdleCache /\ IdleLocate /\ IdleRun

NextLogIn == LogInEnter \/ LogInHandler \/ LogInReturn

SpecLogIn == InitLogIn /\ [][NextLogIn]_vars

----------------------------------------------------------------------------
(* client.go: a call of GetProblemURL *)

GetProblemURLCall ==
    /\ pc = "GetProblemURL"
    /\ locRet' = GetProblemURL(locArgs.contest, locArgs.problem, site.tasksPage)
    /\ trace' = Append(trace, Ev("Visit", 0, problemListURL(locArgs.contest)))
    /\ pc' = "done"
    /\ UNCHANGED <<caller, webVars, locArgs, loginVars, runVars, newVars, cacheVars,
                   pairVars, checkVars>>

\* the labels asked for and the texts of the anchors
Labels == {<<"c">>, <<"C">>, <<"d">>}

Anchors == {Anchor(t, h) : t \in {<<"c">>, <<"C">>, <<"A">>}, h \in {<<"/x">>, <<"/y">>}}

TasksPages ==
    {[ok |-> FALSE, anchors |-> <<>>]}
    \cup {[ok |-> TRUE, anchors |-> a] : a \in SeqUpTo(Anchors, MaxAnchors)}

InitLocate ==
    /\ pc = "GetProblemURL" /\ caller = "main" /\ trace = <<>>
    /\ site \in [contestPage : {NoSite.contestPage}, loginPage : {NoSite.loginPage},
                 tasksPage : TasksPages, problemPage : {NoPage}]
    /\ cookies = {}
    /\ locArgs \in [contest : {<<"A", "b", "c">>}, problem : Labels]
    /\ locRet = NoLocRet
    /\ IdleNew /\ IdlePair /\ IdleCheck /\ IdleCache /\ IdleLogIn /\ IdleRun

NextLocate == GetProblemURLCall

SpecLocate == InitLocate /\ [][NextLocate]_vars

----------------------------------------------------------------------------
(* app.go: Run                                                             *)
(*                                                                         *)
(* The client's operations share one collector, and a handler registered   *)
(* by an earlier operation stays registered for the later visits.  Such a  *)
(* handler assigns only the variables of the call that registered it       *)
(* (beingHeld, csrfToken and loginErr, problemURL, elements), which that   *)
(* call has already returned, so the later operations are modelled without *)
(* the handlers of the earlier ones.                                       *)

\* Run up to its call of LogIn, or past it when the contest is not held:
\* "beingHeld, err := a.client.IsContestBeingHeld(a.contestURL)"
RunStart ==
    /\ pc = "Run"
    /\ \E r \in {IsContestBeingHeld(site.contestPage)} :
          /\ runErr' = r.err
          /\ IF r.err # NilErr
             THEN /\ runRet' = r.err /\ pc' = "done"
                  /\ trace' = Append(trace, Ev("IsContestBeingHeld", 0, app.contestURL))
                  /\ UNCHANGED <<caller, loginArgs>>
             ELSE IF r.beingHeld
             THEN /\ pc' = "LogIn" /\ caller' = "Run"
                  /\ loginArgs' = [username |-> app.username, password |-> app.password]
                  /\ trace' = trace \o <<Ev("IsContestBeingHeld", 1, app.contestURL),
                                         Ev("LogIn", 0, app.username)>>
                  /\ runRet' = runRet
             ELSE /\ pc' = "RunLocate" /\ caller' = "Run"
                  /\ trace' = Append(trace, Ev("IsContestBeingHeld", 0, app.contestURL))
                  /\ UNCHANGED <<runRet, loginArgs>>
    /\ UNCHANGED <<webVars, csrfToken, loginErr, elem, loginRet, locVars, app, runURL,
                   newVars, cacheVars, pairVars, checkVars>>

\* a faulty Run that goes on to locate the problem whatever LogIn returned
RunAfterLogInIgnoresErr ==
    /\ pc = "RunAfterLogIn"
    /\ runRet' = runRet /\ pc' = "RunLocate"
    /\ UNCHANGED <<caller, trace, webVars, loginVars, locVars, app, runURL, runErr,
                   newVars, cacheVars, pairVars, checkVars>>

\* LogIn has returned: "if err := ...; err != nil { return err }"
RunAfterLogIn ==
    /\ pc = "RunAfterLogIn"
    /\ IF loginRet # NilErr
       THEN runRet' = loginRet /\ pc' = "done"
       ELSE runRet' = runRet /\ pc' = "RunLocate"
    /\ UNCHANGED <<caller, trace, webVars, loginVars, locVars, app, runURL, runErr,
                   newVars, cacheVars, pairVars, checkVars>>

\* "if a.problemURL != "" { ... } else { runURL, err = GetProblemURL }"
RunLocate ==
    /\ pc = "RunLocate"
    /\ IF app.problemURL # <<>>
       THEN /\ runURL' = app.problemURL
            /\ pc' = "RunGetSamples"
            /\ UNCHANGED <<trace, runRet, locVars>>
       ELSE /\ locArgs' = [contest |-> app.contest, problem |-> app.problem]
            /\ locRet' = GetProblemURL(app.contest, app.problem, site.tasksPage)
            /\ trace' = Append(trace, Ev("GetProblemURL", 0, app.problem))
            /\ runURL' = locRet'.url
            /\ IF locRet'.err # NilErr
               THEN runRet' = locRet'.err /\ pc' = "done"
               ELSE runRet' = runRet /\ pc' = "RunGetSamples"
    /\ UNCHANGED <<caller, webVars, loginVars, app, runErr,
                   newVars, cacheVars, pairVars, checkVars>>

\* "samples, err := a.client.GetSamples(runURL)" and, without error, the
\* call of Check
RunGetSamples ==
    /\ pc = "RunGetSamples"
    /\ \E w \in Faults :
       \E r \in {GetSamples(client, disk, runURL, site.problemPage, w)} :
          /\ disk' = r.disk
          /\ stored' = storedAfter(r, cacheFilePath(client, runURL))
          /\ io' = r.io
          /\ cacheRet' = [op |-> "GetSamples", url |-> runURL, samples |-> r.samples,
                          ok |-> (r.err = NilErr), err |-> r.err,
                          page |-> site.problemPage, before |-> disk, after |-> r.disk]
          /\ runErr' = r.err
          /\ IF r.err # NilErr
             THEN /\ runRet' = r.err /\ pc' = "done"
                  /\ trace' = Append(trace, Ev("GetSamples", 0, runURL))
                  /\ UNCHANGED checkVars
             ELSE /\ runRet' = runRet /\ pc' = "Check"
                  /\ trace' = trace \o <<Ev("GetSamples", 0, runURL), Ev("Check", 0, <<>>)>>
                  /\ command' = app.command
                  /\ samples' = r.samples
                  /\ i' = 0 /\ successAll' = TRUE
                  /\ UNCHANGED <<outStream, runOuts, checkRet>>
    /\ UNCHANGED <<caller, client, webVars, loginVars, locVars, app, runURL,
                   newVars, pairVars>>

\* Check has returned: "if success := ...; !success { return err }; return nil"
runResult(success, err) == IF ~success THEN err ELSE NilErr

RunAfterCheck ==
    /\ pc = "RunAfterCheck"
    /\ runRet' = runResult(checkRet, runErr)
    /\ pc' = "done"
    /\ UNCHANGED <<caller, trace, webVars, loginVars, locVars, app, runURL, runErr,
                   newVars, cacheVars, pairVars, checkVars>>

\* the Apps New can return: a contest and a problem, or a problem URL; with
\* or without a username; with or without -nocache
Apps ==
    {[isNil |-> FALSE, contest |-> <<"A", "b", "c">>, problem |-> <<"c">>,
      command |-> "python c.py", username |-> u, password |-> <<"p">>,
      contestURL |-> baseURL, problemURL |-> url,
      useCache |-> uc, cacheDirPath |-> <<"~/.atctest">>] :
        u \in {<<>>, <<"u">>}, url \in {<<>>, <<"a", "/", "b">>}, uc \in BOOLEAN}

\* the sites of a run: each page fails, or is one of two pages
RunSites ==
    [contestPage : {[ok |-> FALSE, button |-> FALSE], [ok |-> TRUE, button |-> FALSE],
                    [ok |-> TRUE, button |-> TRUE]},
     loginPage : {[ok |-> FALSE, tokens |-> <<>>], [ok |-> TRUE, tokens |-> <<>>],
                  [ok |-> TRUE, tokens |-> <<<<"t">>>>]},
     tasksPage : {[ok |-> FALSE, anchors |-> <<>>],
                  [ok |-> TRUE, anchors |-> <<Anchor(<<"A">>, <<"/x">>)>>],
                  [ok |-> TRUE, anchors |-> <<Anchor(<<"C">>, <<"/y">>)>>]},
     problemPage : {p \in ProblemPages : Len(p.pres) \in {0, 1, 4}}]

\* the cache of a run: empty, or holding a record for the problem URL
RunDisks ==
    {NoDisk,
     [dir |-> "present",
      files |-> (<<"~/.atctest", "/", "a", "_", "b", ".json">>
                    :> Marshal(Slice(<<OtherSample>>)))]}

InitRun ==
    /\ pc = "Run" /\ caller = "main" /\ trace = <<>>
    /\ app \in Apps
    /\ site \in RunSites
    /\ cookies = {}
    /\ client = [useCache |-> app.useCache, cacheDirPath |-> app.cacheDirPath]
    /\ disk \in RunDisks
    /\ stored = <<>> /\ io = <<>> /\ cacheRet = NoCacheRet
    /\ runURL = <<>> /\ runErr = NilErr /\ runRet = Err("not called", "")
    /\ IdleNew /\ IdlePair /\ IdleCheck /\ IdleLogIn /\ IdleLocate

NextRun ==
    \/ RunStart \/ LogInEnter \/ LogInHandler \/ LogInReturn \/ RunAfterLogIn
    \/ RunLocate \/ RunGetSamples \/ CheckIteration \/ CheckReturn \/ RunAfterCheck

SpecRun == InitRun /\ [][NextRun]_vars

----------------------------------------------------------------------------
(* LogIn and GetProblemURL: properties *)

LogInReturned == pc = "done" /\ caller = "main" /\ loginRet # NoLogInRet

\* C7: LogIn with a username and a password returns nil only if a cookie of
\* baseURL holds the marker of the username at its return; with the marker
\* absent it returns an error.
C7_NilOnlyWhenLoggedIn ==
    (/\ LogInReturned
     /\ loginArgs.username # <<>> /\ loginArgs.password # <<>>
     /\ ~isLoggedIn(cookies, loginArgs.username)) =>
        loginRet # NilErr

GetProblemURLReturned == pc = "done" /\ caller = "main" /\ locRet # NoLocRet

\* the anchors of the task list whose text is the label, letter case aside
Matching(anchors, label) == {k \in DOMAIN anchors : ToUpper(anchors[k].text) = ToUpper(label)}

\* C6: when the task list was fetched, GetProblemURL returns the URL of the
\* first anchor whose text equals the label whatever the letter case of
\* either, and the error "could not find problem page" with no URL when no
\* anchor does.
C6_FirstMatchAnyCase ==
    (GetProblemURLReturned /\ site.tasksPage.ok) =>
        LET m == Matching(site.tasksPage.anchors, locArgs.problem)
        IN  IF m = {}
            THEN locRet.url = <<>> /\ locRet.err.kind = "could not find problem page"
            ELSE /\ locRet.err = NilErr
                 /\ locRet.url = baseURL \o site.tasksPage.anchors[Min(m)].href

----------------------------------------------------------------------------
(* Run: properties *)

StageNames == {"IsContestBeingHeld", "LogIn", "GetProblemURL", "GetSamples", "Check"}

\* the stages of Run in a trace, in the order they were started
RECURSIVE stages(_)
stages(t) ==
    IF t = <<>> THEN <<>>
    ELSE (IF Head(t).op \in StageNames THEN <<Head(t).op>> ELSE <<>>) \o stages(Tail(t))

\* the stages of a run in which no stage fails
AllStages ==
    <<"IsContestBeingHeld">>
    \o (IF site.contestPage.ok /\ site.contestPage.button THEN <<"LogIn">> ELSE <<>>)
    \o (IF app.problemURL = <<>> THEN <<"GetProblemURL">> ELSE <<>>)
    \o <<"GetSamples", "Check">>

IsPrefix(a, b) == Len(a) <= Len(b) /\ a = SubSeq(b, 1, Len(a))

\* what a stage returned as its error
stageErr(stage) ==
    CASE stage = "IsContestBeingHeld" -> IsContestBeingHeld(site.contestPage).err
      [] stage = "LogIn" -> loginRet
      [] stage = "GetProblemURL" -> locRet.err
      [] stage = "GetSamples" -> cacheRet.err
      [] OTHER -> NilErr

CommandRun == \E k \in DOMAIN trace : trace[k].op = "commander.Run"

\* C9: the stages Run has started are, in order, a prefix of: liveness
\* check, LogIn exactly if the contest is being held, GetProblemURL exactly
\* if the App has no problem URL, GetSamples, Check.  When Run has returned
\* before Check, the last stage it started returned an error, Run returned
\* that error, the command was never run and nothing was reported; and when
\* it reached Check no stage had returned an error.
C9_StagesInOrder ==
    /\ pc # "Run" => IsPrefix(stages(trace), AllStages)
    /\ (pc = "done" /\ stages(trace) # AllStages) =>
          /\ stageErr(stages(trace)[Len(stages(trace))]) # NilErr
          /\ runRet = stageErr(stages(trace)[Len(stages(trace))])
          /\ ~CommandRun
          /\ outStream = <<>>
    /\ stages(trace) = AllStages =>
          \A k \in 1..(Len(AllStages) - 1) : stageErr(AllStages[k]) = NilErr

\* a run of a held contest whose LogIn posted the form and failed, so that
\* Run returned the login error without locating the problem
C9_Witness ==
    /\ pc = "done"
    /\ stages(trace) = <<"IsContestBeingHeld", "LogIn">>
    /\ \E k \in DOMAIN trace : trace[k].op = "Post"
    /\ runRet.kind = "login error"
    /\ app.problemURL = <<>>

\* C10: when the stages before Check succeed, Run returns nil exactly if
\* Check returned true.
C10_RunReportsCheck ==
    (pc = "done" /\ stages(trace) = AllStages) => ((runRet = NilErr) <=> checkRet)

====
